---- MODULE Spec2Model ----
(***************************************************************************)
(* The integration-test input driver of lazygit                            *)
(* (pkg/integration/components/input.go) run against an application that   *)
(* redraws on its own schedule.                                            *)
(*                                                                         *)
(* The harness is a single thread of control.  Its position is `todo`, the *)
(* sequence of calls it still has to make: a facade method is the sequence *)
(* of calls of its body, and the steps of the model are the calls that     *)
(* touch the outside world (a sleep, a key press handed to the GUI driver, *)
(* one read of the application by an assertion).  Between any two of these *)
(* the application may handle a key it was handed or redraw.               *)
(***************************************************************************)
EXTENDS Integers, Sequences, FiniteSets, TLC

\* ------------------------------------------------------------------ bounds
MaxLines == 3      \* longest list a view shows
MaxAttempts == 2   \* attempt budget of the retrying poll
MaxText == 2       \* longest text a scenario types

\* --------------------------------------------------------------- constants
pushKeyDelay == 10
OtherDelay == 7

VARIABLES
  keys,             \* Input.keys: the keybinding table the scenario runs with
  screen,           \* application: the focused region
  lines,            \* application: the lines of the focused view
  sel,              \* application: the selected line index of the focused view
  pending,          \* the key handed to the GUI driver the application has not handled yet
  todo,             \* harness: the calls still to make, next first
  status,           \* "running" | "failed"
  failure,          \* the reason the scenario failed with
  attempt,          \* attempts the current retrying poll has made
  message,          \* the reason the latest failed attempt returned
  matchIndex,       \* NavigateToListItem's local
  selectedLineIdx,  \* NavigateToListItem's local
  log,              \* what the current scenario step did so far, in order
  nav               \* history of the current NavigateToListItem call

vars == <<keys, screen, lines, sel, pending, todo, status, failure, attempt,
          message, matchIndex, selectedLineIdx, log, nav>>

appVars == <<screen, lines, sel>>
locals == <<matchIndex, selectedLineIdx>>

\* ---------------------------------------------------------------- helpers
Min(a, b) == IF a < b THEN a ELSE b
Max(a, b) == IF a > b THEN a ELSE b
Abs(a) == IF a < 0 THEN 0 - a ELSE a

RECURSIVE SeqsUpTo(_, _)
SeqsUpTo(S, n) ==
  IF n = 0 THEN {<<>>}
  ELSE LET shorter == SeqsUpTo(S, n - 1)
       IN shorter \cup {Append(q, x) : q \in {r \in shorter : Len(r) = n - 1}, x \in S}

RECURSIVE Flatten(_)
Flatten(ss) == IF ss = <<>> THEN <<>> ELSE Head(ss) \o Flatten(Tail(ss))

\* ------------------------------------------------------------- keybindings
\* The table is read-only input; its jump-to-block family has four or five entries.
UniversalKeys(jumpToBlock) ==
  [Confirm |-> "<enter>", Return |-> "<esc>", Select |-> "<space>",
   NextItem |-> "<down>", PrevItem |-> "<up>", TogglePanel |-> "<tab>",
   CreateRebaseOptionsMenu |-> "m", Edit |-> "e", Remove |-> "d",
   JumpToBlock |-> jumpToBlock]

KeybindingConfigs ==
  {[Universal |-> UniversalKeys(jb)] :
     jb \in {<<"1", "2", "3", "4">>, <<"1", "2", "3", "4", "5">>}}

\* ---------------------------------------------------------------- matchers
NoMatcher == [name |-> "", accepts |-> {}]
Contains(target, accepted) == [name |-> target, accepts |-> accepted]
test(matcher, line) == line \in matcher.accepts

LineVals == {"commit 02", "continue"}
Commit02 == Contains("commit 02", {"commit 02"})
Continue == Contains("continue", {"continue"})
TitleM == Contains("T", {"T"})
ContentM == Contains("C", {"C"})

\* ------------------------------------------------------------- application
\* A region: its kind, whether it is list-shaped, its view, window, title and
\* content.  `rows` is the longest list the model lets it show: the side
\* panels are shown empty, the suggestions with at most one line, the menu
\* with up to MaxLines lines.
Region(kind, list, rows, view, title, content) ==
  [kind |-> kind, list |-> list, rows |-> rows, view |-> view, window |-> view,
   title |-> title, content |-> content]

Screens ==
  { Region("status", FALSE, 0, "status", "X", "X"),
    Region("panel", TRUE, 0, "files", "X", "X"),
    Region("panel", TRUE, 0, "localBranches", "X", "X"),
    Region("panel", TRUE, 0, "commits", "T", "C"),
    Region("panel", TRUE, 0, "stash", "X", "X"),
    Region("menu", TRUE, MaxLines, "menu", "T", "X"),
    Region("menu", TRUE, 0, "menu", "X", "X"),
    Region("confirmation", FALSE, 0, "confirmation", "T", "C"),
    Region("confirmation", FALSE, 0, "confirmation", "T", "X"),
    Region("confirmation", FALSE, 0, "confirmation", "X", "C"),
    Region("prompt", FALSE, 0, "confirmation", "T", "X"),
    Region("prompt", FALSE, 0, "confirmation", "X", "X"),
    Region("suggestions", TRUE, 1, "suggestions", "X", "X") }

\* The lines a region can show, and the selected index: inside the list, 0
\* for an empty one.
ListsOf(s) == SeqsUpTo(LineVals, s.rows)
IndexesOf(l) == 0 .. Max(Len(l) - 1, 0)

\* ------------------------------------------------------------------ frames
\* One call still to make: its name, and its matcher, string or number argument.
F(op, m, k, n) == [op |-> op, m |-> m, k |-> k, n |-> n]

Ev(e, k, n) == [e |-> e, k |-> k, n |-> n]

Msg(kind, name, count, ls) == [kind |-> kind, name |-> name, count |-> count, lines |-> ls]
NoMsg == Msg("none", "", 0, <<>>)

RECURSIVE Repeat(_, _)
Repeat(body, n) == IF n <= 0 THEN <<>> ELSE body \o Repeat(body, n - 1)

\* --- calls out of input.go: the GUI driver and the assertion helpers
PressKey(keyStr) == <<F("PressKey", NoMatcher, keyStr, 0)>>
LogUI(text) == <<F("LogUI", NoMatcher, text, 0)>>
InListContext == <<F("InListContext", NoMatcher, "", 0)>>
InConfirm == <<F("InConfirm", NoMatcher, "", 0)>>
InPrompt == <<F("InPrompt", NoMatcher, "", 0)>>
InMenu == <<F("InMenu", NoMatcher, "", 0)>>
CurrentViewTitle(matcher) == <<F("CurrentViewTitle", matcher, "", 0)>>
CurrentViewContent(matcher) == <<F("CurrentViewContent", matcher, "", 0)>>
CurrentViewName(name) == <<F("CurrentViewName", NoMatcher, name, 0)>>
CurrentWindowName(name) == <<F("CurrentWindowName", NoMatcher, name, 0)>>
SelectedLine(matcher) == <<F("SelectedLine", matcher, "", 0)>>
Panic(what) == <<F("panic", NoMatcher, what, 0)>>

\* --- input.go, method by method
Wait(milliseconds) == <<F("Wait", NoMatcher, "", milliseconds)>>

\* A press that does not wait first.
pressNoWait(keyStr) == PressKey(keyStr)

press(keyStr) == Wait(pushKeyDelay) \o PressKey(keyStr)

Press(keyStrs) == Flatten([i \in 1 .. Len(keyStrs) |-> press(keyStrs[i])])

\* self.keys.Universal.JumpToBlock[i], Go's 0-based index; out of range panics
JumpToBlock(i) ==
  IF i < Len(keys.Universal.JumpToBlock) THEN press(keys.Universal.JumpToBlock[i + 1])
  ELSE Panic("index out of range")

SwitchToStatusWindow == JumpToBlock(0) \o CurrentWindowName("status")
SwitchToFilesWindow == JumpToBlock(1) \o CurrentWindowName("files")
SwitchToBranchesWindow == JumpToBlock(2) \o CurrentWindowName("localBranches")
SwitchToCommitsWindow == JumpToBlock(3) \o CurrentWindowName("commits")
SwitchToStashWindow == JumpToBlock(4) \o CurrentWindowName("stash")

Type(content) == Flatten([i \in 1 .. Len(content) |-> press(content[i])])

Confirm == press(keys.Universal.Confirm)
Enter == press(keys.Universal.Confirm)
Cancel == press(keys.Universal.Return)
PrimaryAction == press(keys.Universal.Select)
NextItem == press(keys.Universal.NextItem)
PreviousItem == press(keys.Universal.PrevItem)

ContinueMerge ==
  Press(<<keys.Universal.CreateRebaseOptionsMenu>>) \o SelectedLine(Continue) \o Confirm
ContinueRebase == ContinueMerge

Log(text) == LogUI(text)

\* A body that does not check the focused region first.
NavigateToListItemUnchecked(matcher) ==
  <<F("NavigateToListItem", matcher, "", 0), F("CurrentContext", matcher, "", 0),
    F("navPoll", matcher, "", 0), F("navSelect", matcher, "", 0)>>

\* The body up to the poll; what follows the poll depends on what it reads
\* and is the step NavSelect below.
NavigateToListItem(matcher) ==
  <<F("NavigateToListItem", matcher, "", 0)>> \o InListContext
    \o <<F("CurrentContext", matcher, "", 0), F("navPoll", matcher, "", 0),
         F("navSelect", matcher, "", 0)>>

AcceptConfirmation(title, content) ==
  InConfirm \o CurrentViewTitle(title) \o CurrentViewContent(content) \o Confirm

DenyConfirmation(title, content) ==
  InConfirm \o CurrentViewTitle(title) \o CurrentViewContent(content) \o Cancel

Prompt(title, textToType) ==
  InPrompt \o CurrentViewTitle(title) \o Type(textToType) \o Confirm

\* A typeahead that confirms before it looks at the suggestions.
TypeaheadConfirmEarly(title, textToType, expectedFirstOption) ==
  InPrompt \o CurrentViewTitle(title) \o Type(textToType)
    \o Press(<<keys.Universal.TogglePanel>>) \o Confirm
    \o CurrentViewName("suggestions") \o SelectedLine(expectedFirstOption)

Typeahead(title, textToType, expectedFirstOption) ==
  InPrompt \o CurrentViewTitle(title) \o Type(textToType)
    \o Press(<<keys.Universal.TogglePanel>>) \o CurrentViewName("suggestions")
    \o SelectedLine(expectedFirstOption) \o Confirm

\* A menu flow that confirms before it navigates.
MenuConfirmFirst(title, optionToSelect) ==
  InMenu \o CurrentViewTitle(title) \o Confirm \o NavigateToListItem(optionToSelect)

Menu(title, optionToSelect) ==
  InMenu \o CurrentViewTitle(title) \o NavigateToListItem(optionToSelect) \o Confirm

Alert(title, content) ==
  InListContext \o CurrentViewTitle(title) \o CurrentViewContent(content) \o Confirm


\* ------------------------------------------------------- history of a call
\* The positions (0-based) of the lines of ls that satisfy the matcher.
MatchPositions(ls, matcher) == {i \in 0 .. Len(ls) - 1 : test(matcher, ls[i + 1])}

NavIdle ==
  [phase |-> "none", keys |-> <<>>, s0 |-> -1, reads |-> 0,
   multi |-> TRUE, zero |-> TRUE, fresh |-> TRUE]

\* phase: how far the call is ("none", "started", "polled": the poll found its
\*   match, "pressing": the selected index is read, "done": it returned);
\* keys: the keys it pressed so far;
\* s0: the selected index when it was called, as long as the application has
\*   done nothing since but obey the keys the call pressed, -1 otherwise;
\* reads, multi, zero: the attempts the poll in progress has made, whether
\*   all of them saw several matches, whether all of them saw none;
\* fresh: the application shows what it showed at the latest attempt of the
\*   poll in progress.
\*
\* The application acted on its own while a NavigateToListItem call runs:
\* `changed` it changed what it shows, `disturbed` it did something other
\* than obey a key the call pressed.
NavNote(changed, disturbed) ==
  IF nav.phase = "none" THEN nav
  ELSE [nav EXCEPT !.fresh = IF nav.reads > 0 THEN @ /\ ~changed ELSE @,
                   !.s0 = IF disturbed THEN -1 ELSE @]

\* ------------------------------------------------------------ application
\* The instant a call returns to the scenario.
Returning == todo # <<>> /\ Head(todo).op = "return"

\* The application runs while the scenario does.
AppRuns == status = "running" /\ ~Returning

\* The keys the application answers by moving the selection.  What it does
\* on any other key is its own business and shows as a redraw.
Moves(k) == k \in {keys.Universal.NextItem, keys.Universal.PrevItem}

SelectedLineOf(l, i) == IF i < Len(l) THEN l[i + 1] ELSE ""

\* The application takes the next key it was handed.  The next-item and
\* previous-item keys move the selection of a list by one, clamped at the
\* ends of the list; the application may also ignore one.
AppHandleKey ==
  /\ AppRuns
  /\ pending # <<>>
  /\ LET k == Head(pending)
         moves == screen.list /\ Moves(k)
         moved == IF k = keys.Universal.NextItem
                  THEN Min(sel + 1, Max(Len(lines) - 1, 0))
                  ELSE Max(sel - 1, 0)
     IN \E obey \in BOOLEAN :
          /\ ~obey => moves
          /\ sel' = IF obey /\ moves THEN moved ELSE sel
          /\ nav' = NavNote(sel' # sel, ~obey)
  /\ pending' = Tail(pending)
  /\ UNCHANGED <<keys, screen, lines, todo, status, failure, attempt, message,
                 locals, log>>

\* The application acts on its own schedule: it moves the focus to another
\* region (a region that was not showing starts with what it shows first) ...
AppFocus ==
  /\ AppRuns
  /\ \E s \in Screens :
       /\ s # screen
       /\ screen' = s
       /\ lines' = <<>>
       /\ sel' = 0
  /\ nav' = NavNote(TRUE, TRUE)
  /\ UNCHANGED <<keys, pending, todo, status, failure, attempt, message, locals, log>>

\* ... it redraws the list of the focused region with any other lines, the
\* selection staying where it is if the list is long enough ...
AppRedraw ==
  /\ AppRuns
  /\ \E l \in ListsOf(screen) :
       /\ l # lines
       /\ lines' = l
       /\ sel' = Min(sel, Max(Len(l) - 1, 0))
  /\ nav' = NavNote(TRUE, TRUE)
  /\ UNCHANGED <<keys, screen, pending, todo, status, failure, attempt, message,
                 locals, log>>

\* ... and it moves the selection to any other line of the list.
AppSelect ==
  /\ AppRuns
  /\ \E i \in IndexesOf(lines) :
       /\ i # sel
       /\ sel' = i
  /\ nav' = NavNote(TRUE, TRUE)
  /\ UNCHANGED <<keys, screen, lines, pending, todo, status, failure, attempt,
                 message, locals, log>>

\* ----------------------------------------------------------------- harness
Running == status = "running" /\ todo # <<>>
Top == Head(todo)

\* The facade method the scenario called.
Called == IF todo = <<>> THEN "" ELSE todo[Len(todo)].k

\* A failure that is recorded and returns to the caller.
FailAndReturn(msg) ==
  /\ failure' = msg
  /\ todo' = Tail(todo)
  /\ UNCHANGED status

\* The scenario is over: nothing of the harness runs after this.
Fail(msg) ==
  /\ status' = "failed"
  /\ failure' = msg
  /\ UNCHANGED todo

Passed(op) ==
  /\ todo' = Tail(todo)
  /\ log' = Append(log, Ev("pass", op, 0))
  /\ UNCHANGED <<status, failure>>

\* A capability check of the focused region: one look, no retry.
AssertContext(op, holds) ==
  /\ Running
  /\ Top.op = op
  /\ IF holds THEN Passed(op)
     ELSE Fail(Msg("precondition", op, 0, <<>>)) /\ UNCHANGED log
  /\ UNCHANGED <<keys, appVars, pending, attempt, message, locals, nav>>

AssertInListContext == AssertContext("InListContext", screen.list)
AssertInConfirm == AssertContext("InConfirm", screen.kind = "confirmation")
AssertInPrompt == AssertContext("InPrompt", screen.kind = "prompt")
AssertInMenu == AssertContext("InMenu", screen.kind = "menu")

\* A poll that keeps the reason of its first failed attempt.
assertWithRetriesFirstReason(op, ok, msg) ==
  IF ok
  THEN /\ Passed(op)
       /\ attempt' = 0
       /\ message' = NoMsg
  ELSE /\ attempt' = attempt + 1
       /\ message' = IF attempt = 0 THEN msg ELSE message
       /\ IF attempt + 1 < MaxAttempts
          THEN UNCHANGED <<todo, status, failure, log>>
          ELSE Fail(IF attempt = 0 THEN msg ELSE message) /\ UNCHANGED log

\* One attempt of the retrying poll: stop at the first success, keep the
\* latest reason, fail with it when the budget is spent.
assertWithRetries(op, ok, msg) ==
  IF ok
  THEN /\ Passed(op)
       /\ attempt' = 0
       /\ message' = NoMsg
  ELSE /\ attempt' = attempt + 1
       /\ message' = msg
       /\ IF attempt + 1 < MaxAttempts
          THEN UNCHANGED <<todo, status, failure, log>>
          ELSE Fail(msg) /\ UNCHANGED log

AssertPolled(op, ok) ==
  /\ Running
  /\ Top.op = op
  /\ assertWithRetries(op, ok, Msg("mismatch", IF Top.k = "" THEN Top.m.name ELSE Top.k, 0, <<>>))
  /\ UNCHANGED <<keys, appVars, pending, locals>>

AssertCurrentViewTitle ==
  /\ AssertPolled("CurrentViewTitle", test(Top.m, screen.title))
  /\ UNCHANGED nav
AssertCurrentViewContent ==
  /\ AssertPolled("CurrentViewContent", test(Top.m, screen.content))
  /\ UNCHANGED nav
AssertCurrentViewName ==
  /\ AssertPolled("CurrentViewName", screen.view = Top.k)
  /\ UNCHANGED nav
AssertCurrentWindowName ==
  /\ AssertPolled("CurrentWindowName", screen.window = Top.k)
  /\ UNCHANGED nav
AssertSelectedLine ==
  /\ AssertPolled("SelectedLine", test(Top.m, SelectedLineOf(lines, sel)))
  /\ nav' = IF nav.phase = "pressing" /\ test(Top.m, SelectedLineOf(lines, sel))
            THEN [nav EXCEPT !.phase = "done"] ELSE nav

DoWait ==
  /\ Running
  /\ Top.op = "Wait"
  /\ log' = Append(log, Ev("wait", "", Top.n))
  /\ todo' = Tail(todo)
  /\ UNCHANGED <<keys, appVars, pending, status, failure, attempt, message, locals, nav>>

DoPressKey ==
  /\ Running
  /\ Top.op = "PressKey"
  /\ IF Moves(Top.k)
     THEN pending = <<>> /\ pending' = <<Top.k>>
     ELSE UNCHANGED pending
  /\ log' = Append(log, Ev("key", Top.k, 0))
  /\ nav' = IF nav.phase = "pressing" THEN [nav EXCEPT !.keys = Append(@, Top.k)] ELSE nav
  /\ todo' = Tail(todo)
  /\ UNCHANGED <<keys, appVars, status, failure, attempt, message, locals>>

DoLogUI ==
  /\ Running
  /\ Top.op = "LogUI"
  /\ todo' = Tail(todo)
  /\ UNCHANGED <<keys, appVars, pending, status, failure, attempt, message, locals, log, nav>>

DoPanic ==
  /\ Running
  /\ Top.op = "panic"
  /\ Fail(Msg("panic", Top.k, 0, <<>>))
  /\ UNCHANGED <<keys, appVars, pending, attempt, message, locals, log, nav>>


\* ------------------------------------------------------ NavigateToListItem
NavEnter ==
  /\ Running
  /\ Top.op = "NavigateToListItem"
  /\ matchIndex' = 0
  /\ nav' = [NavIdle EXCEPT !.phase = "started",
                            !.s0 = IF pending = <<>> THEN sel ELSE -1]
  /\ todo' = Tail(todo)
  /\ UNCHANGED <<keys, appVars, pending, status, failure, attempt, message,
                 selectedLineIdx, log>>

\* currentContext := self.gui.CurrentContext().(types.IListContext): the type
\* assertion panics when the focused region is no longer a list.
NavCurrentContext ==
  /\ Running
  /\ Top.op = "CurrentContext"
  /\ IF screen.list THEN todo' = Tail(todo) /\ UNCHANGED <<status, failure>>
     ELSE Fail(Msg("panic", "IListContext", 0, <<>>))
  /\ UNCHANGED <<keys, appVars, pending, attempt, message, locals, log, nav>>

\* The loop of the poll's check over view.ViewBufferLines(), from index i on.
RECURSIVE ScanLines(_, _, _, _)
ScanLines(ls, matcher, i, acc) ==
  IF i >= Len(ls) THEN acc
  ELSE ScanLines(ls, matcher, i + 1,
                 IF test(matcher, ls[i + 1])
                 THEN [matches |-> Append(acc.matches, ls[i + 1]), matchIndex |-> i]
                 ELSE acc)

\* A scan that stops at the first matching line.
FindFirstMatch(ls, matcher) ==
  LET hits == {i \in 0 .. Len(ls) - 1 : test(matcher, ls[i + 1])}
      first == CHOOSE i \in hits : \A j \in hits : i <= j
  IN IF hits = {} THEN [matches |-> <<>>, matchIndex |-> -1]
     ELSE [matches |-> <<ls[first + 1]>>, matchIndex |-> first]

FindMatches(ls, matcher) == ScanLines(ls, matcher, 0, [matches |-> <<>>, matchIndex |-> -1])

\* A check that rejects several matches only.
PollResultNoAbsence(matches, matcher) ==
  IF Len(matches) > 1
  THEN [ok |-> FALSE, msg |-> Msg("Found matches", matcher.name, Len(matches), matches)]
  ELSE [ok |-> TRUE, msg |-> NoMsg]

\* What the check returns for the matches it found.
PollResult(matches, matcher) ==
  IF Len(matches) > 1
  THEN [ok |-> FALSE, msg |-> Msg("Found matches", matcher.name, Len(matches), matches)]
  ELSE IF Len(matches) = 0
  THEN [ok |-> FALSE, msg |-> Msg("Could not find", matcher.name, 0, <<>>)]
  ELSE [ok |-> TRUE, msg |-> NoMsg]

\* A poll that loops until it finds its match, with no budget.
NavPollForever ==
  /\ Running
  /\ Top.op = "navPoll"
  /\ LET found == FindMatches(lines, Top.m)
         r == PollResult(found.matches, Top.m)
     IN /\ matchIndex' = found.matchIndex
        /\ IF r.ok THEN Passed("navPoll") /\ message' = NoMsg
           ELSE message' = r.msg /\ UNCHANGED <<todo, status, failure, log>>
        /\ nav' = [nav EXCEPT !.reads = 1,
                              !.multi = @ /\ Cardinality(MatchPositions(lines, Top.m)) > 1,
                              !.zero = @ /\ MatchPositions(lines, Top.m) = {},
                              !.fresh = TRUE,
                              !.phase = IF r.ok THEN "polled" ELSE @]
  /\ UNCHANGED <<keys, appVars, pending, selectedLineIdx, attempt>>

\* A poll that nudges the list with the next-item key after an attempt that
\* failed.
NavPollNudging ==
  /\ Running
  /\ Top.op = "navPoll"
  /\ LET found == FindMatches(lines, Top.m)
         r == PollResult(found.matches, Top.m)
     IN /\ matchIndex' = found.matchIndex
        /\ IF r.ok \/ attempt + 1 >= MaxAttempts
           THEN assertWithRetries("navPoll", r.ok, r.msg)
           ELSE /\ attempt' = attempt + 1
                /\ message' = r.msg
                /\ log' = Append(log, Ev("key", keys.Universal.NextItem, 0))
                /\ UNCHANGED <<todo, status, failure>>
        /\ nav' = [nav EXCEPT !.reads = @ + 1,
                              !.multi = @ /\ Cardinality(MatchPositions(lines, Top.m)) > 1,
                              !.zero = @ /\ MatchPositions(lines, Top.m) = {},
                              !.fresh = TRUE,
                              !.phase = IF r.ok THEN "polled" ELSE @]
  /\ UNCHANGED <<keys, appVars, pending, selectedLineIdx>>

\* A poll that keeps the match index an earlier attempt recorded.
NavPollStale ==
  /\ Running
  /\ Top.op = "navPoll"
  /\ LET found == FindMatches(lines, Top.m)
         r == PollResult(found.matches, Top.m)
     IN /\ matchIndex' = IF attempt > 0 /\ matchIndex >= 0 THEN matchIndex
                         ELSE found.matchIndex
        /\ assertWithRetries("navPoll", r.ok, r.msg)
        /\ nav' = [nav EXCEPT !.reads = @ + 1,
                              !.multi = @ /\ Cardinality(MatchPositions(lines, Top.m)) > 1,
                              !.zero = @ /\ MatchPositions(lines, Top.m) = {},
                              !.fresh = TRUE,
                              !.phase = IF r.ok THEN "polled" ELSE @]
  /\ UNCHANGED <<keys, appVars, pending, selectedLineIdx>>

NavPoll ==
  /\ Running
  /\ Top.op = "navPoll"
  /\ LET found == FindMatches(lines, Top.m)
         r == PollResult(found.matches, Top.m)
     IN /\ matchIndex' = found.matchIndex
        /\ assertWithRetries("navPoll", r.ok, r.msg)
        /\ nav' = [nav EXCEPT !.reads = @ + 1,
                              !.multi = @ /\ Cardinality(MatchPositions(lines, Top.m)) > 1,
                              !.zero = @ /\ MatchPositions(lines, Top.m) = {},
                              !.fresh = TRUE,
                              !.phase = IF r.ok THEN "polled" ELSE @]
  /\ UNCHANGED <<keys, appVars, pending, selectedLineIdx>>

\* Loops that run once too often (i <= matchIndex, i >= matchIndex).
NavKeysOffByOne(selIdx, mIdx, matcher) ==
  IF selIdx = mIdx THEN SelectedLine(matcher)
  ELSE IF selIdx < mIdx
  THEN Repeat(NextItem, mIdx - selIdx + 1) \o SelectedLine(matcher)
  ELSE Repeat(PreviousItem, selIdx - mIdx + 1) \o SelectedLine(matcher)

\* No early return for selectedLineIdx == matchIndex, and a first loop that
\* runs at least once.
NavKeysNoEqualCase(selIdx, mIdx, matcher) ==
  IF selIdx <= mIdx
  THEN Repeat(NextItem, Max(mIdx - selIdx, 1)) \o SelectedLine(matcher)
  ELSE Repeat(PreviousItem, selIdx - mIdx) \o SelectedLine(matcher)

\* A navigation that returns after its presses without looking at the
\* selected line.
NavKeysNoFinalCheck(selIdx, mIdx, matcher) ==
  IF selIdx = mIdx THEN <<>>
  ELSE IF selIdx < mIdx
  THEN Repeat(NextItem, mIdx - selIdx)
  ELSE Repeat(PreviousItem, selIdx - mIdx)

\* A navigation that moves the wrong way.
NavKeysSwapped(selIdx, mIdx, matcher) ==
  IF selIdx = mIdx THEN SelectedLine(matcher)
  ELSE IF selIdx < mIdx
  THEN Repeat(PreviousItem, mIdx - selIdx) \o SelectedLine(matcher)
  ELSE Repeat(NextItem, selIdx - mIdx) \o SelectedLine(matcher)

\* What NavigateToListItem does once it has read the selected index.
NavKeys(selIdx, mIdx, matcher) ==
  IF selIdx = mIdx THEN SelectedLine(matcher)
  ELSE IF selIdx < mIdx
  THEN Repeat(NextItem, mIdx - selIdx) \o SelectedLine(matcher)
  ELSE Repeat(PreviousItem, selIdx - mIdx) \o SelectedLine(matcher)

NavSelect ==
  /\ Running
  /\ Top.op = "navSelect"
  /\ selectedLineIdx' = sel
  /\ todo' = NavKeys(sel, matchIndex, Top.m) \o Tail(todo)
  /\ nav' = [nav EXCEPT !.phase = "pressing", !.fresh = TRUE, !.reads = 0]
  /\ UNCHANGED <<keys, appVars, pending, status, failure, attempt, message,
                 matchIndex, log>>

\* ---------------------------------------------------------------- scenario
Text(n) == SubSeq(<<"a", "b", "c", "d">>, 1, n)

Call(name, body) == [name |-> name, body |-> body]

ScenarioCalls ==
  {Call("Press", Press(<<keys.Universal.Edit, keys.Universal.Remove>>)),
   Call("SwitchToStatusWindow", SwitchToStatusWindow),
   Call("SwitchToFilesWindow", SwitchToFilesWindow),
   Call("SwitchToBranchesWindow", SwitchToBranchesWindow),
   Call("SwitchToCommitsWindow", SwitchToCommitsWindow),
   Call("SwitchToStashWindow", SwitchToStashWindow),
   Call("Type", Type(Text(MaxText))),
   Call("Confirm", Confirm), Call("Enter", Enter), Call("Cancel", Cancel),
   Call("PrimaryAction", PrimaryAction),
   Call("NextItem", NextItem), Call("PreviousItem", PreviousItem),
   Call("ContinueMerge", ContinueMerge), Call("ContinueRebase", ContinueRebase),
   Call("Wait", Wait(OtherDelay)), Call("LogUI", LogUI("note")), Call("Log", Log("note")),
   Call("NavigateToListItem", NavigateToListItem(Commit02)),
   Call("AcceptConfirmation", AcceptConfirmation(TitleM, ContentM)),
   Call("DenyConfirmation", DenyConfirmation(TitleM, ContentM)),
   Call("Prompt", Prompt(TitleM, Text(MaxText))),
   Call("Typeahead", Typeahead(TitleM, Text(0), Continue)),
   Call("Typeahead", Typeahead(TitleM, Text(MaxText), Continue)),
   Call("Menu", Menu(TitleM, Commit02)),
   Call("Alert", Alert(TitleM, ContentM))}

\* A scenario that only navigates a list.
NavigatingCalls == {Call("NavigateToListItem", NavigateToListItem(Commit02))}

\* The scenario makes its next call into the facade, one of `calls` ...
InvokeOf(calls) ==
  /\ status = "running"
  /\ todo = <<>>
  /\ \E call \in calls :
       todo' = call.body \o <<F("return", NoMatcher, call.name, 0)>>
  /\ UNCHANGED <<keys, appVars, pending, status, failure, attempt, message, locals,
                 log, nav>>

Invoke == InvokeOf(ScenarioCalls)
InvokeNavigating == InvokeOf(NavigatingCalls)

\* ... and the call returns to it: the call's locals and history are gone.
Return ==
  /\ Running
  /\ Top.op = "return"
  /\ todo' = Tail(todo)
  /\ log' = <<>>
  /\ nav' = NavIdle
  /\ attempt' = 0
  /\ message' = NoMsg
  /\ matchIndex' = 0
  /\ selectedLineIdx' = 0
  /\ UNCHANGED <<keys, appVars, pending, status, failure>>

Init ==
  /\ keys \in KeybindingConfigs
  /\ screen \in Screens
  /\ lines \in ListsOf(screen)
  /\ sel \in IndexesOf(lines)
  /\ pending = <<>>
  /\ todo = <<>>
  /\ status = "running"
  /\ failure = NoMsg
  /\ attempt = 0
  /\ message = NoMsg
  /\ matchIndex = 0
  /\ selectedLineIdx = 0
  /\ log = <<>>
  /\ nav = NavIdle

Harness ==
  \/ Invoke
  \/ Return
  \/ DoWait
  \/ DoPressKey
  \/ DoLogUI
  \/ DoPanic
  \/ AssertInListContext
  \/ AssertInConfirm
  \/ AssertInPrompt
  \/ AssertInMenu
  \/ AssertCurrentViewTitle
  \/ AssertCurrentViewContent
  \/ AssertCurrentViewName
  \/ AssertCurrentWindowName
  \/ AssertSelectedLine
  \/ NavEnter
  \/ NavCurrentContext
  \/ NavPoll
  \/ NavSelect

Next == Harness \/ AppHandleKey \/ AppFocus \/ AppRedraw \/ AppSelect

Spec == Init /\ [][Next]_vars

\* A scenario that only navigates a list, with the default keybindings.  The
\* harness is one thread that keeps running, and the application takes the
\* key it is handed.
NavInit == Init /\ Len(keys.Universal.JumpToBlock) = 5

NavHarness ==
  \/ InvokeNavigating
  \/ Return
  \/ DoWait
  \/ DoPressKey
  \/ AssertInListContext
  \/ AssertSelectedLine
  \/ NavEnter
  \/ NavCurrentContext
  \/ NavPoll
  \/ NavSelect

NavNext == NavHarness \/ AppHandleKey \/ AppFocus \/ AppRedraw \/ AppSelect

NavFairSpec ==
  NavInit /\ [][NavNext]_vars /\ WF_vars(NavHarness) /\ WF_vars(AppHandleKey)

\* ================================================================== claims
MatchingLines(ls, matcher) == SelectSeq(ls, LAMBDA line : test(matcher, line))

KeysIn(events) == SelectSeq(events, LAMBDA ev : ev.e = "key")

\* The call has issued all its key presses.
NavAllPressed ==
  \/ nav.phase = "done"
  \/ nav.phase = "pressing" /\ todo # <<>> /\ Top.op = "SelectedLine"

\* C1 - Navigation correctness.  While the application does nothing but obey
\* the keys the call presses, and its list has exactly one line satisfying the
\* matcher, at position m, with the selection at s0 when NavigateToListItem
\* was called: the call never presses more than |m - s0| keys, has pressed
\* exactly |m - s0| keys when it is through pressing, the selection is at m
\* once the application has handled them, and the call returns with the
\* selection at m; it can fail only in its final check, on a key the
\* application has not handled yet.
C1_NavigationCorrectness ==
  \A m \in 0 .. Len(lines) - 1 :
    (nav.phase # "none" /\ nav.s0 >= 0 /\ MatchPositions(lines, Commit02) = {m})
    => /\ Len(nav.keys) <= Abs(m - nav.s0)
       /\ NavAllPressed => Len(nav.keys) = Abs(m - nav.s0)
       /\ (NavAllPressed /\ pending = <<>>) => sel = m
       /\ nav.phase = "done" => (sel = m /\ pending = <<>>)
       /\ status = "failed"
            => (nav.phase = "pressing" /\ Top.op = "SelectedLine" /\ pending # <<>>)

C1_Witness ==
  /\ nav.phase = "done"
  /\ nav.s0 >= 0
  /\ Returning
  /\ Len(nav.keys) = 2
  /\ MatchPositions(lines, Commit02) = {sel}
  /\ Abs(sel - nav.s0) = 2

\* C2 - Multiplicity rejection.  If every attempt of the poll so far saw two
\* or more matching lines, NavigateToListItem has not succeeded and has
\* pressed no key; the reason of the latest attempt is the several-matches
\* reason, which names the matcher, states the number of matching lines and
\* lists them; and when the budget is spent the scenario has failed with it.
C2_MultiplicityRejection ==
  (nav.reads > 0 /\ nav.multi)
  => /\ nav.phase = "started"
     /\ KeysIn(log) = <<>>
     /\ message.kind = "Found matches"
     /\ message.kind # PollResult(<<>>, Commit02).msg.kind
     /\ message.name = Commit02.name
     /\ message.count >= 2
     /\ message.count = Len(message.lines)
     /\ nav.fresh => /\ message.lines = MatchingLines(lines, Commit02)
                     /\ message.count = Cardinality(MatchPositions(lines, Commit02))
     /\ nav.reads = MaxAttempts => (status = "failed" /\ failure = message)
     /\ nav.reads < MaxAttempts => status = "running"

C2_Witness ==
  /\ status = "failed"
  /\ nav.multi
  /\ nav.reads = MaxAttempts
  /\ failure.kind = "Found matches"
  /\ failure.count = 2
  /\ Len(lines) = 3

\* C3 - Absence rejection.  If every attempt of the poll so far saw no
\* matching line, NavigateToListItem has not succeeded and has pressed no key;
\* the reason of the latest attempt is the could-not-find reason naming the
\* matcher; and when the budget is spent the scenario has failed with it.
C3_AbsenceRejection ==
  (nav.reads > 0 /\ nav.zero)
  => /\ nav.phase = "started"
     /\ KeysIn(log) = <<>>
     /\ message.kind = "Could not find"
     /\ message.name = Commit02.name
     /\ nav.fresh => MatchPositions(lines, Commit02) = {}
     /\ nav.reads = MaxAttempts => (status = "failed" /\ failure = message)
     /\ nav.reads < MaxAttempts => status = "running"

C3_Witness ==
  /\ status = "failed"
  /\ nav.zero
  /\ nav.reads = MaxAttempts
  /\ failure.kind = "Could not find"
  /\ Len(lines) = 2

\* C4 - No-op navigation.  When the selected index NavigateToListItem reads
\* equals the match index, it presses no key; and if the application has done
\* nothing on its own since the call, the final check passes at its first
\* attempt and the call succeeds.
C4_NoOpNavigation ==
  (nav.phase \in {"pressing", "done"} /\ selectedLineIdx = matchIndex)
  => /\ nav.keys = <<>>
     /\ nav.s0 >= 0
          => /\ status = "running"
             /\ nav.phase = "pressing"
                  => /\ Top.op = "SelectedLine"
                     /\ attempt = 0
                     /\ test(Top.m, SelectedLineOf(lines, sel))

C4_Witness ==
  /\ nav.phase = "done"
  /\ Returning
  /\ Called = "NavigateToListItem"
  /\ selectedLineIdx = matchIndex
  /\ matchIndex = 1
  /\ nav.s0 = 1
  /\ nav.keys = <<>>
  /\ KeysIn(log) = <<>>


\* C5 - Atomic snapshot.  When NavigateToListItem reads the selected index,
\* the application still shows what it showed when the poll read the lines
\* in which it found the match: the two reads are of one render.
C5_AtomicSnapshot ==
  [][(Running /\ Top.op = "navSelect" /\ nav'.phase = "pressing") => nav.fresh]_vars

\* C6 - Settle-delay ordering.  Every key handed to the GUI driver comes
\* right after one wait of the configured push-key delay.
C6_SettleDelay ==
  \A i \in 1 .. Len(log) :
    log[i].e = "key" => (i > 1 /\ log[i - 1] = Ev("wait", "", pushKeyDelay))

C6_Witness ==
  /\ Len(KeysIn(log)) >= 3
  /\ Called = "Typeahead"
  /\ Returning

\* C7 - Precondition violation.  NavigateToListItem called while the focused
\* region is not list-shaped fails at its first step, with the precondition
\* reason and no retry; it has read no lines and pressed no key; and the call
\* reads lines or presses keys only after that check has passed.
InListContextPassed == \E i \in 1 .. Len(log) : log[i] = Ev("pass", "InListContext", 0)

C7_PreconditionViolation ==
  /\ (Running /\ nav.phase = "started" /\ Top.op = "InListContext" /\ ~screen.list)
     => (attempt = 0 /\ ~ENABLED (Harness /\ status' = "running"))
  /\ (status = "failed" /\ nav.phase = "started" /\ Top.op = "InListContext")
     => /\ failure.kind = "precondition"
        /\ attempt = 0
        /\ message = NoMsg
        /\ nav.reads = 0
        /\ KeysIn(log) = <<>>
  /\ (nav.phase # "none" /\ (nav.reads > 0 \/ nav.phase # "started"))
     => InListContextPassed

C7_Witness ==
  /\ status = "failed"
  /\ Called = "NavigateToListItem"
  /\ nav.phase = "started"
  /\ Top.op = "InListContext"
  /\ ~screen.list

\* C8 - Assert-before-act in modal flows.  In each of the six flows, a key is
\* pressed only after the assertion of the flow's modal kind, the assertion of
\* the title and, where the flow takes a content, the assertion of the
\* content have passed.
ModalKindOf ==
  [AcceptConfirmation |-> "InConfirm", DenyConfirmation |-> "InConfirm",
   Prompt |-> "InPrompt", Typeahead |-> "InPrompt", Menu |-> "InMenu",
   Alert |-> "InConfirm"]

FirstKey == CHOOSE i \in 1 .. Len(log) : log[i].e = "key" /\ \A j \in 1 .. i - 1 : log[j].e # "key"

PassedBefore(op, i) == \E j \in 1 .. i - 1 : log[j] = Ev("pass", op, 0)

AssertBeforeAct(flows) ==
  (Called \in flows /\ KeysIn(log) # <<>>)
  => /\ PassedBefore(ModalKindOf[Called], FirstKey)
     /\ PassedBefore("CurrentViewTitle", FirstKey)
     /\ Called \in {"AcceptConfirmation", "DenyConfirmation", "Alert"}
          => PassedBefore("CurrentViewContent", FirstKey)

C8_AssertBeforeAct == AssertBeforeAct(DOMAIN ModalKindOf)

\* C9 - Fail-stop.  Once the scenario has failed, it has terminated: no step
\* of the harness can run any more, so no key is pressed and the rest of the
\* flow and of the scenario is not run.
C9_FailStop ==
  failure # NoMsg => (status = "failed" /\ ~ENABLED Harness)

C9_Witness ==
  /\ status = "failed"
  /\ Called = "Menu"
  /\ Top.op = "navPoll"
  /\ \E i \in 1 .. Len(todo) : todo[i].op = "PressKey"

\* C10 - Bounded retry and termination.  A poll makes at most MaxAttempts
\* attempts, stops at the first that succeeds, and fails the scenario when the
\* budget is spent; and every NavigateToListItem call ends, in success or in
\* failure, whatever the application shows.
InNav == status = "running" /\ nav.phase \in {"started", "polled", "pressing"}

BoundedRetry ==
  /\ attempt <= MaxAttempts
  /\ nav.reads <= MaxAttempts
  /\ attempt = MaxAttempts => status = "failed"
  /\ (status = "failed" /\ failure.kind \notin {"precondition", "panic"})
       => attempt = MaxAttempts
  /\ nav.phase = "polled" => (Top.op = "navSelect" /\ attempt = 0 /\ status = "running")

C10_BoundedRetryTermination == []BoundedRetry /\ (InNav ~> ~InNav)

C10_Witness ==
  /\ status = "failed"
  /\ Called = "NavigateToListItem"
  /\ Top.op = "navPoll"
  /\ attempt = MaxAttempts
  /\ nav.reads = MaxAttempts
  /\ ~nav.multi
  /\ ~nav.zero

\* C11 - Last failure reason.  When the poll of NavigateToListItem has spent
\* its budget, the reason the scenario fails with is the reason of the final
\* attempt: the one the check gives for the lines that attempt read (the
\* application shows them still, it stopped with the scenario), whatever the
\* earlier attempts saw; it is never an empty or a generic reason.
PollExhausted == status = "failed" /\ Top.op = "navPoll"

C11_LastFailureReason ==
  PollExhausted
  => /\ failure = message
     /\ failure.kind \in {"Found matches", "Could not find"}
     /\ failure.name = Top.m.name
     /\ failure.kind = "Found matches"
          <=> Cardinality(MatchPositions(lines, Top.m)) > 1
     /\ failure.kind = "Could not find" <=> MatchPositions(lines, Top.m) = {}
     /\ failure.lines = MatchingLines(lines, Top.m)
     /\ failure.count = Len(failure.lines)

\* Early attempts saw no match, the last one saw several.
C11_Witness ==
  /\ PollExhausted
  /\ attempt = MaxAttempts
  /\ ~nav.multi
  /\ ~nav.zero
  /\ failure.kind = "Found matches"
  /\ Cardinality(MatchPositions(lines, Top.m)) = 2

\* C12 - Final-selection check.  NavigateToListItem returns to the scenario
\* only with the selected line satisfying the matcher, the last thing it did
\* being the check of the selected line that passed; when the application
\* ignored or clamped presses and the selection is on a line that does not
\* satisfy the matcher, the call does not return: its final check is still
\* polling or has failed the scenario.
LastEvent == log[Len(log)]

NavReturning == Returning /\ Called = "NavigateToListItem"

C12_FinalSelectionCheck ==
  /\ NavReturning
     => /\ status = "running"
        /\ nav.phase = "done"
        /\ log # <<>>
        /\ LastEvent = Ev("pass", "SelectedLine", 0)
        /\ test(Commit02, SelectedLineOf(lines, sel))
  /\ (nav.phase = "pressing" /\ Called = "NavigateToListItem")
     => /\ todo[Len(todo) - 1].op = "SelectedLine"
        /\ todo[Len(todo) - 1].m = Commit02
  /\ (nav.phase = "pressing" /\ Called = "NavigateToListItem" /\ status = "failed")
     => /\ Top.op = "SelectedLine"
        /\ ~test(Commit02, SelectedLineOf(lines, sel))
        /\ failure.kind = "mismatch"

\* The application ignored a press, the selection stayed on another line and
\* the call failed in its final check.
C12_Witness ==
  /\ status = "failed"
  /\ Called = "NavigateToListItem"
  /\ nav.phase = "pressing"
  /\ Top.op = "SelectedLine"
  /\ Len(nav.keys) = 1
  /\ pending = <<>>
  /\ sel = selectedLineIdx
  /\ MatchPositions(lines, Commit02) = {matchIndex}
  /\ ~test(Commit02, SelectedLineOf(lines, sel))

\* C13 - Direction of navigation.  Within one NavigateToListItem call, from
\* the poll's success to the call's return, every key handed to the GUI
\* driver is the next-item key when the selected index the call read is below
\* the match index, the previous-item key when it is above, and there is none
\* when they are equal: a call never presses both kinds, nor any other key,
\* nor more than the distance between the two indexes.
AllKeysAre(ks, k) == \A i \in 1 .. Len(ks) : ks[i] = k

KeyNames(events) == [i \in 1 .. Len(KeysIn(events)) |-> KeysIn(events)[i].k]

C13_DirectionOfNavigation ==
  /\ nav.phase \in {"none", "started", "polled"} => nav.keys = <<>>
  /\ nav.phase \in {"pressing", "done"}
     => /\ selectedLineIdx < matchIndex => AllKeysAre(nav.keys, keys.Universal.NextItem)
        /\ selectedLineIdx > matchIndex => AllKeysAre(nav.keys, keys.Universal.PrevItem)
        /\ selectedLineIdx = matchIndex => nav.keys = <<>>
        /\ Len(nav.keys) <= Abs(matchIndex - selectedLineIdx)
        /\ NavAllPressed => Len(nav.keys) = Abs(matchIndex - selectedLineIdx)
  /\ (Called = "NavigateToListItem" /\ nav.phase # "none") => KeyNames(log) = nav.keys
  /\ keys.Universal.NextItem # keys.Universal.PrevItem

\* Two presses of the previous-item key took the call from the last line of
\* the list up to its first.
C13_Witness ==
  /\ NavReturning
  /\ selectedLineIdx = 2
  /\ matchIndex = 0
  /\ nav.keys = <<keys.Universal.PrevItem, keys.Universal.PrevItem>>
  /\ KeyNames(log) = nav.keys

\* C14 - Polling is read-only.  While NavigateToListItem polls, no key has
\* been pressed since the call was made; an attempt of the poll, successful
\* or not, leaves what the application shows and the key in flight as they
\* are and hands no key to the GUI driver; the attempt that succeeds read
\* exactly one matching line; and the first key of the call comes after the
\* poll has passed.
PollAttempt ==
  /\ Running
  /\ Top.op = "navPoll"
  /\ (attempt' # attempt \/ todo' # todo \/ status' # status)

PollingIsQuiet ==
  /\ nav.phase = "started" => (KeysIn(log) = <<>> /\ nav.keys = <<>>)
  /\ (nav.phase # "none" /\ KeysIn(log) # <<>>) => PassedBefore("navPoll", FirstKey)

C14_PollingReadOnly ==
  /\ []PollingIsQuiet
  /\ [][PollAttempt
         => /\ UNCHANGED <<screen, lines, sel, pending, keys>>
            /\ KeysIn(log') = KeysIn(log)
            /\ nav'.phase = "polled" <=> Cardinality(MatchPositions(lines, Top.m)) = 1]_vars

\* An attempt has failed, the poll goes on, and nothing was pressed.
C14_Witness ==
  /\ Running
  /\ Top.op = "navPoll"
  /\ Called = "Menu"
  /\ attempt = 1
  /\ nav.reads = 1
  /\ nav.zero
  /\ KeysIn(log) = <<>>
  /\ pending = <<>>
  /\ Len(lines) = 2

\* C15 - Menu flow ordering.  In Menu the confirm key is pressed at most
\* once, only once NavigateToListItem has succeeded, and right after the
\* check of the selected line passed for the option (nothing but the settle
\* delay in between); while the navigation has not succeeded (the option is
\* absent, ambiguous, or not reached) no confirm is pressed; and Menu returns
\* having pressed confirm exactly once, as its last key.
ConfirmsAt == {i \in 1 .. Len(log) : log[i] = Ev("key", keys.Universal.Confirm, 0)}

C15_MenuFlowOrdering ==
  Called = "Menu"
  => /\ Cardinality(ConfirmsAt) <= 1
     /\ nav.phase # "done" => ConfirmsAt = {}
     /\ \A i \in ConfirmsAt :
          /\ i >= 3
          /\ log[i - 1] = Ev("wait", "", pushKeyDelay)
          /\ log[i - 2] = Ev("pass", "SelectedLine", 0)
          /\ i = Len(log)
     /\ Returning => (Cardinality(ConfirmsAt) = 1 /\ status = "running")
     /\ (status = "failed" /\ Top.op \in {"navPoll", "SelectedLine", "InListContext"})
          => ConfirmsAt = {}

\* Menu moved the selection by one line to the option and confirmed it.
C15_Witness ==
  /\ Returning
  /\ Called = "Menu"
  /\ Len(nav.keys) = 1
  /\ Len(KeysIn(log)) = 2
  /\ LastEvent = Ev("key", keys.Universal.Confirm, 0)

\* C16 - Typeahead flow ordering.  The keys Typeahead presses and those it
\* has still to press are, in order, the characters of the text, the
\* toggle-panel key and the confirm key: len(text) + 2 keys when it returns.
\* The confirm key is the last thing it does, right after the assertion of
\* the view name "suggestions" and then the assertion of the selected line
\* have passed, which come after the toggle-panel key; it is not pressed
\* when either assertion has failed.
TodoKeys == SelectSeq(todo, LAMBDA f : f.op = "PressKey")

PlannedKeys == KeyNames(log) \o [i \in 1 .. Len(TodoKeys) |-> TodoKeys[i].k]

TypeaheadKeys(text) == text \o <<keys.Universal.TogglePanel, keys.Universal.Confirm>>

TypedTexts == {Text(0), Text(MaxText)}

C16_TypeaheadFlowOrdering ==
  Called = "Typeahead"
  => /\ \E text \in TypedTexts :
          /\ PlannedKeys = TypeaheadKeys(text)
          /\ Returning => (KeyNames(log) = TypeaheadKeys(text)
                            /\ Len(KeysIn(log)) = Len(text) + 2)
     /\ \A i \in ConfirmsAt :
          /\ i = Len(log)
          /\ i >= 6
          /\ log[i - 1] = Ev("wait", "", pushKeyDelay)
          /\ log[i - 2] = Ev("pass", "SelectedLine", 0)
          /\ log[i - 3] = Ev("pass", "CurrentViewName", 0)
          /\ log[i - 4] = Ev("key", keys.Universal.TogglePanel, 0)
     /\ (status = "failed" /\ Top.op \in {"CurrentViewName", "SelectedLine"})
          => (ConfirmsAt = {} /\ Len(KeysIn(log)) = Len(PlannedKeys) - 1)
     /\ Returning => Cardinality(ConfirmsAt) = 1

\* Typeahead typed its text, switched to the suggestions, found the option
\* it expected selected and confirmed it.
C16_Witness ==
  /\ Returning
  /\ Called = "Typeahead"
  /\ KeyNames(log) = TypeaheadKeys(Text(MaxText))
  /\ MaxText >= 2
  /\ screen.view = "suggestions"

\* C17 - Panel switching.  Each of the five switch-to-panel actions presses
\* exactly one key, the jump-to-block entry at the panel's index (status 0,
\* files 1, localBranches 2, commits 3, stash 4), which every table of the
\* keybinding configuration has (its jump-to-block family has four entries
\* or more); it then asserts the name of the current window, and returns with
\* the window of that name current.
PanelOf ==
  [SwitchToStatusWindow |-> [index |-> 0, name |-> "status"],
   SwitchToFilesWindow |-> [index |-> 1, name |-> "files"],
   SwitchToBranchesWindow |-> [index |-> 2, name |-> "localBranches"],
   SwitchToCommitsWindow |-> [index |-> 3, name |-> "commits"],
   SwitchToStashWindow |-> [index |-> 4, name |-> "stash"]]

PanelSwitching(actions) ==
  Called \in actions
  => /\ Len(keys.Universal.JumpToBlock) >= 4
     /\ PanelOf[Called].index < Len(keys.Universal.JumpToBlock)
     /\ PlannedKeys = <<keys.Universal.JumpToBlock[PanelOf[Called].index + 1]>>
     /\ failure.kind # "panic"
     /\ \A i \in 1 .. Len(log) :
          log[i].e = "pass" => (log[i].k = "CurrentWindowName" /\ KeyNames(log) = PlannedKeys)
     /\ Returning => /\ LastEvent = Ev("pass", "CurrentWindowName", 0)
                     /\ screen.window = PanelOf[Called].name

C17_PanelSwitching == PanelSwitching(DOMAIN PanelOf)

\* The four actions whose index every table has.
PanelSwitchingFirstFour == PanelSwitching(DOMAIN PanelOf \ {"SwitchToStashWindow"})

\* C18 - Alert modal kind.  Alert presses its key only after it has asserted
\* that a confirmation is the focused region and that assertion has passed:
\* on a region of another kind, a list panel showing the expected title and
\* content included, it presses nothing.
C18_AlertModalKind ==
  (Called = "Alert" /\ KeysIn(log) # <<>>) => PassedBefore("InConfirm", FirstKey)

\* C19 - Continue flow.  ContinueMerge, and ContinueRebase like it, presses
\* its first key only after an assertion has passed; it presses the confirm
\* key only right after the assertion that the selected line contains
\* "continue" has passed; and it returns having pressed exactly two keys, the
\* rebase-options-menu key and then the confirm key.
ContinueCalled == Called \in {"ContinueMerge", "ContinueRebase"}

ContinueAssertsFirst ==
  (ContinueCalled /\ KeysIn(log) # <<>>) => \E j \in 1 .. FirstKey - 1 : log[j].e = "pass"

ContinueConfirmsAfterCheck ==
  ContinueCalled
  => /\ PlannedKeys = <<keys.Universal.CreateRebaseOptionsMenu, keys.Universal.Confirm>>
     /\ \A i \in ConfirmsAt :
          /\ i = Len(log)
          /\ i >= 5
          /\ log[i - 1] = Ev("wait", "", pushKeyDelay)
          /\ log[i - 2] = Ev("pass", "SelectedLine", 0)
     /\ (status = "failed" /\ Top.op = "SelectedLine") => ConfirmsAt = {}
     /\ Returning => KeyNames(log) = PlannedKeys

C19_ContinueFlow == ContinueAssertsFirst /\ ContinueConfirmsAfterCheck

\* C20 - No stale match index.  The attempt of the poll that succeeds leaves
\* in matchIndex the index of the one line satisfying the matcher among the
\* lines that attempt read, an index of that list, whatever the attempts
\* before it recorded; and it is still that while the application shows what
\* it showed then.
MatchIndexIsCurrent ==
  (nav.phase = "polled" /\ nav.fresh)
  => /\ MatchPositions(lines, Top.m) = {matchIndex}
     /\ matchIndex \in 0 .. Len(lines) - 1
     /\ test(Top.m, lines[matchIndex + 1])

C20_NoStaleMatchIndex ==
  /\ []MatchIndexIsCurrent
  /\ [][(PollAttempt /\ nav'.phase = "polled")
         => /\ MatchPositions(lines, Top.m) = {matchIndex'}
            /\ matchIndex' \in 0 .. Len(lines) - 1]_vars

\* The poll succeeded at its last attempt, after an attempt that failed.
C20_Witness ==
  /\ nav.phase = "polled"
  /\ nav.reads = MaxAttempts
  /\ nav.fresh
  /\ Called = "NavigateToListItem"
  /\ matchIndex = 0
  /\ Len(lines) >= 2

====
